---- MODULE Spec2Model ----
(***************************************************************************)
(* Model of the HYPHA signed message transport (hypha_sdk/transport.py)   *)
(* feeding the task coordinator (src/messaging/handler.py).               *)
(*                                                                         *)
(* One listening agent ("alice") serves TCP connections.  Every accepted  *)
(* connection runs MessageTransport._handle_connection as its own asyncio *)
(* task: one read, deserialisation, dispatch by message type, and the     *)
(* MessageHandler method registered for the type.  A handler suspends at  *)
(* the await of its user callback; other connection tasks run meanwhile.  *)
(***************************************************************************)
EXTENDS Integers, Sequences, FiniteSets, TLC

---------------------------------------------------------------------------
(* Bounds of the exploration *)

\* connections the peers open during one run of the lifecycle model
MaxMsgs == 3

\* connections the peers open during one run of the open-network model
MaxAuthMsgs == 2

\* connection tasks that may be suspended in a user callback at once
MaxConns == 2

\* units of an envelope that one TCP segment carries
SegmentUnits == 4

\* connections the peers open during one run of the fault model
MaxFaultyMsgs == 3

\* calls of send_message during one run of the sender model
MaxSends == 2

\* times one Message object is signed during one run of the signing model
MaxSigns == 2

\* SeedManager and Agent objects constructed in one run
MaxIdentities == 3

\* calls of announce during one run of the directory model
MaxAnnounces == 2

\* calls of start, stop and discover_peers during one run
MaxCalls == 1

\* calls of Agent.hire during one run
MaxHires == 2

\* tasks that call one Discovery instance, one call each
MaxTasks == 3

\* calls of register_handler, set_task_handler and set_payment_handler
MaxRegistrations == 2

\* connections to the listener of a registering application
MaxRegistryMsgs == 2

---------------------------------------------------------------------------
(* Values carried by the messages *)

Escrows == {"e1", "e2"}

Results == {"r1", "r2"}

TxHashes == {"t1"}

\* the listening agent and the peer that sends to it
Listener == "alice"

Peer == "bob"

\* a third party that owns a signing key of its own
Stranger == "mallory"

\* python None
None == "None"

\* MessageType enum values
TASK_REQUEST == "task_request"

TASK_RESPONSE == "task_response"

TASK_COMPLETE == "task_complete"

PAYMENT_NOTIFICATION == "payment_notification"

PING == "ping"

---------------------------------------------------------------------------
(* Signing: nacl SigningKey.sign / VerifyKey.verify *)

\* the signing key an agent's transport holds
SigningKeyOf(agent) == <<"sk", agent>>

\* SigningKey.verify_key
VerifyKeyOf(sk) == <<"vk", sk[2]>>

\* a signature field that is None
NoSignature == [key |-> <<"vk", None>>, over |-> <<>>]

\* message.to_bytes() as the signed content: the six fields as they are
Content(m) == <<m.type, m.sender, m.recipient, m.payload, m.timestamp, m.signature>>

\* signed bytes that leave the timestamp out
UnsignedContentWithoutTimestamp(m) ==
    Content([m EXCEPT !.signature = NoSignature, !.timestamp = 0])

\* the bytes sign_message and verify_message compute: the message rebuilt
\* with signature=None
UnsignedContent(m) == Content([m EXCEPT !.signature = NoSignature])

\* a detached Ed25519 signature: it verifies under the matching verify key,
\* for the signed bytes only
NaclSign(sk, content) == [key |-> VerifyKeyOf(sk), over |-> content]

NaclVerify(vk, content, sig) == sig.key = vk /\ sig.over = content

sign_message(sk, m) == [m EXCEPT !.signature = NaclSign(sk, UnsignedContent(m))]

verify_message(m, sender_verify_key) ==
    IF m.signature = NoSignature
    THEN FALSE
    ELSE NaclVerify(sender_verify_key, UnsignedContent(m), m.signature)

\* sign_message of src/messaging/transport.py: it signs message.to_bytes()
bridge_sign_message(sk, m) == [m EXCEPT !.signature = NaclSign(sk, Content(m))]

\* master seeds
Seeds == {"s1", "s2"}

\* sha256(master_seed + tag): one digest per seed and tag
Sha256(seed, tag) ==
    CASE seed = "s1" /\ tag = "hypha.p2p" -> "d1p"
      [] seed = "s1" /\ tag = "hypha.wallet" -> "d1w"
      [] seed = "s2" /\ tag = "hypha.p2p" -> "d2p"
      [] seed = "s2" /\ tag = "hypha.wallet" -> "d2w"

\* SeedManager: the Ed25519 key of the P2P identity, and the NodeID, which
\* is its verify key
p2p_signing_key(seed) == <<"sk", Sha256(seed, "hypha.p2p")>>

node_id(seed) == VerifyKeyOf(p2p_signing_key(seed))

\* SeedManager.wallet_private_key: the wallet seed is the private key
wallet_private_key(seed) == Sha256(seed, "hypha.wallet")

\* how an agent and its transport are put together: by Agent.__init__ with
\* or without PRIVATE_KEY in the environment, or as test_two_agents.py does
Constructions == {"Agent", "Agent+PRIVATE_KEY", "test_two_agents"}

\* the wallet (payment) key of an agent
WalletKey(seed, built) ==
    CASE built = "Agent" -> None
      [] built = "Agent+PRIVATE_KEY" -> "PRIVATE_KEY"
      [] built = "test_two_agents" -> wallet_private_key(seed)

\* MessageTransport.__init__: SigningKey(private_key[:32]) of the key it is
\* given, a generated key without one
TransportSigningKey(seed, built) ==
    IF WalletKey(seed, built) = None
    THEN <<"sk", "generated">>
    ELSE <<"sk", WalletKey(seed, built)>>

\* Account.from_key(key).address
AddressOf(key) == <<"address", key>>

\* SeedManager.wallet_address: the address of the wallet seed
wallet_address(seed) == AddressOf(wallet_private_key(seed))

\* the first 16 characters of a hex string
Hex16(digest) == <<"hex16", digest>>

\* a key derivation whose salt and password are swapped: the secret is the
\* same for every seed
derive_keypair_from_salt(seed) ==
    LET secret == <<"pbkdf2", "hypha-identity">>
    IN  [public |-> <<"sha256", secret, "public">>, secret |-> secret]

\* Agent._derive_keypair: secret = pbkdf2_hmac(seed, salt b'hypha-identity'),
\* public = sha256(secret + b'public')
derive_keypair(seed) ==
    LET secret == <<"pbkdf2", seed>>
    IN  [public |-> <<"sha256", secret, "public">>, secret |-> secret]

\* SeedManager(seed_bytes): what the object holds and derives
SeedManager(seed) ==
    [kind |-> "SeedManager", seed |-> seed,
     node_id |-> node_id(seed),
     node_id_hex |-> Hex16(node_id(seed)),
     p2p_signing_key |-> p2p_signing_key(seed),
     wallet_address |-> wallet_address(seed)]

\* Agent(seed) constructed with the environment variable PRIVATE_KEY set to
\* private_key, or not set (None)
AgentObject(seed, private_key) ==
    [kind |-> "Agent", seed |-> seed,
     keypair |-> derive_keypair(seed),
     agent_id |-> Hex16(derive_keypair(seed).public),
     account |-> IF private_key = None THEN <<"address", None>>
                 ELSE AddressOf(private_key)]

---------------------------------------------------------------------------
(* Messages: protocol.py *)

Message(type, sender, recipient, payload) ==
    [type |-> type, sender |-> sender, recipient |-> recipient,
     payload |-> payload, timestamp |-> 1, signature |-> NoSignature]

\* TaskRequestMessage(...).to_message: payload is asdict(self)
TaskRequestMessage(e) ==
    Message(TASK_REQUEST, Peer, Listener,
            [escrow_id |-> e, task_description |-> "review code", amount |-> 5,
             deadline |-> 9, requirements |-> None])

TaskResponseMessage(e, accepted) ==
    Message(TASK_RESPONSE, Peer, Listener,
            [escrow_id |-> e, accepted |-> accepted,
             estimated_completion |-> None, message |-> None])

TaskCompleteMessage(e, r) ==
    Message(TASK_COMPLETE, Peer, Listener,
            [escrow_id |-> e, result |-> r, completion_proof |-> None])

PaymentNotification(e, t) ==
    Message(PAYMENT_NOTIFICATION, Peer, Listener,
            [escrow_id |-> e, amount |-> 5, tx_hash |-> t,
             from_address |-> "0xb", to_address |-> "0xa"])

\* the well-formed messages of the four lifecycle types, not yet signed
LifecycleMessages ==
    {TaskRequestMessage(e) : e \in Escrows}
    \cup {TaskResponseMessage(e, a) : e \in Escrows, a \in BOOLEAN}
    \cup {TaskCompleteMessage(e, r) : e \in Escrows, r \in Results}
    \cup {PaymentNotification(e, t) : e \in Escrows, t \in TxHashes}

\* what send_message puts on the wire: the message signed by the sender
SignedMessages == {sign_message(SigningKeyOf(Peer), m) : m \in LifecycleMessages}

\* messages about one escrow as any party can write them to the listening
\* port: signed by the stated sender, not signed, or signed by another key
OpenNetworkMessages ==
    LET about == {m \in LifecycleMessages : m.payload.escrow_id = "e1"}
    IN  {sign_message(SigningKeyOf(Peer), m) : m \in about}
        \cup about
        \cup {sign_message(SigningKeyOf(Stranger), m) : m \in about}

\* a PING: a message type no handler is registered for
PingMessage == Message(PING, Peer, Listener, [nonce |-> 1])

\* the task request Agent.hire builds: create_message puts the dict it is
\* given into the payload, key by key
\* what the peer of a registering application sends
RegistryMessages ==
    {sign_message(SigningKeyOf(Peer), m) :
        m \in {TaskRequestMessage("e1"), PaymentNotification("e1", "t1")}}

HireTaskRequest(e) ==
    Message(TASK_REQUEST, Peer, Listener,
            [type |-> TASK_REQUEST, escrow_id |-> e, task |-> "review code",
             amount |-> 5, deadline |-> 9])

\* messages of the fault model: two the coordinator handles, one without a
\* registered handler, one whose payload its handler cannot parse
FaultyMessages ==
    {sign_message(SigningKeyOf(Peer), m) :
        m \in {TaskRequestMessage("e1"), TaskCompleteMessage("e1", "r1"),
               PingMessage, HireTaskRequest("e1")}}

\* the message m with one payload field its type does not define
WithExtraField(m) ==
    [m EXCEPT !.payload = [k \in DOMAIN m.payload \cup {"priority"} |->
                              IF k = "priority" THEN "high" ELSE m.payload[k]]]

\* well-formed task requests, each as its dataclass writes it and with one
\* more payload field
ExtendedMessages ==
    LET requests == {TaskRequestMessage(e) : e \in Escrows}
    IN  {sign_message(SigningKeyOf(Peer), m) : m \in requests}
        \cup {sign_message(SigningKeyOf(Peer), WithExtraField(m)) : m \in requests}

\* task requests as the two senders of the repository build them: by
\* TaskRequestMessage.to_message and by Agent.hire
HireMessages ==
    {sign_message(SigningKeyOf(Peer), TaskRequestMessage("e1")),
     sign_message(SigningKeyOf(Peer), HireTaskRequest("e2"))}

\* fields of the payload dataclasses: all of them, and those without default
PayloadFields(type) ==
    CASE type = TASK_REQUEST ->
           {"escrow_id", "task_description", "amount", "deadline", "requirements"}
      [] type = TASK_RESPONSE ->
           {"escrow_id", "accepted", "estimated_completion", "message"}
      [] type = TASK_COMPLETE -> {"escrow_id", "result", "completion_proof"}
      [] type = PAYMENT_NOTIFICATION ->
           {"escrow_id", "amount", "tx_hash", "from_address", "to_address"}

RequiredFields(type) ==
    CASE type = TASK_REQUEST -> {"escrow_id", "task_description", "amount", "deadline"}
      [] type = TASK_RESPONSE -> {"escrow_id", "accepted"}
      [] type = TASK_COMPLETE -> {"escrow_id", "result"}
      [] type = PAYMENT_NOTIFICATION ->
           {"escrow_id", "amount", "tx_hash", "from_address", "to_address"}

\* cls(**message.payload) raises TypeError on a missing or an unexpected key
from_message_ok(m) ==
    /\ RequiredFields(m.type) \subseteq DOMAIN m.payload
    /\ DOMAIN m.payload \subseteq PayloadFields(m.type)

\* a dataclass field read after from_message: the default None when absent
Field(m, name) == IF name \in DOMAIN m.payload THEN m.payload[name] ELSE None

---------------------------------------------------------------------------
(* Wire format: Message.to_bytes / Message.from_bytes *)

\* python bool as it is printed
PyStr(b) == IF b THEN "True" ELSE "False"

Token(tok, key, val) == [tok |-> tok, key |-> key, val |-> val]

\* json.dumps(asdict(self)).encode(): the envelope as a sequence of units
to_bytes(m) ==
    << Token("{", "", 0),
       Token("field", "type", m.type),
       Token("field", "sender", m.sender),
       Token("field", "recipient", m.recipient),
       Token("field", "payload", m.payload),
       Token("field", "timestamp", m.timestamp),
       Token("field", "signature", m.signature),
       Token("}", "", 0) >>

\* the keys of the decoded JSON object
JsonKeys(data) == {data[i].key : i \in 2..(Len(data) - 1)}

JsonValue(data, key) ==
    LET i == CHOOSE j \in 2..(Len(data) - 1) : data[j].key = key
    IN  data[i].val

\* json.loads accepts the text only when the object is closed
JsonLoadsOk(data) ==
    /\ Len(data) >= 2
    /\ data[1].tok = "{"
    /\ data[Len(data)].tok = "}"
    /\ \A i \in 2..(Len(data) - 1) : data[i].tok = "field"

\* cls(**json.loads(...)): every field but signature is required, and no
\* other key is accepted
from_bytes_ok(data) ==
    /\ JsonLoadsOk(data)
    /\ {"type", "sender", "recipient", "payload", "timestamp"} \subseteq JsonKeys(data)
    /\ JsonKeys(data) \subseteq
         {"type", "sender", "recipient", "payload", "timestamp", "signature"}

\* a from_json that reads the five required fields only
from_bytes_without_signature(data) ==
    [type |-> JsonValue(data, "type"),
     sender |-> JsonValue(data, "sender"),
     recipient |-> JsonValue(data, "recipient"),
     payload |-> JsonValue(data, "payload"),
     timestamp |-> JsonValue(data, "timestamp"),
     signature |-> NoSignature]

\* Message.from_bytes: cls(**json.loads(data.decode()))
from_bytes(data) ==
    [type |-> JsonValue(data, "type"),
     sender |-> JsonValue(data, "sender"),
     recipient |-> JsonValue(data, "recipient"),
     payload |-> JsonValue(data, "payload"),
     timestamp |-> JsonValue(data, "timestamp"),
     signature |-> IF "signature" \in JsonKeys(data)
                   THEN JsonValue(data, "signature") ELSE NoSignature]

\* bytes that are no envelope: no JSON at all, an object that lacks a
\* required field, and an object with a key Message does not have
MalformedEnvelopes ==
    LET m == sign_message(SigningKeyOf(Peer), TaskRequestMessage("e1"))
    IN  { << Token("garbage", "", 0) >>,
          SubSeq(to_bytes(m), 1, 5) \o SubSeq(to_bytes(m), 7, 8),
          SubSeq(to_bytes(m), 1, 7) \o << Token("field", "ttl", 3), Token("}", "", 0) >> }

\* the size argument of reader.read in _handle_connection
ReadSize == 65536

\* StreamReader.read(n): what is buffered when the call returns, at most n
\* units; `arrived` units of the envelope have reached the listener by then
StreamRead(bytes, arrived, n) ==
    SubSeq(bytes, 1, IF arrived <= n THEN arrived ELSE n)

\* how much of an envelope can be buffered when the first read returns: a
\* whole number of segments, or all of it
Arrivals(bytes) ==
    {n \in 1..Len(bytes) : n = Len(bytes) \/ n % SegmentUnits = 0}

---------------------------------------------------------------------------
(* State *)

VARIABLES
    active_tasks,   \* MessageHandler.active_tasks: escrow_id -> task record
    suspended,      \* connection tasks waiting in a user callback
    lifecycle,      \* per escrow_id, how far its messages followed a tracked order
    returned,       \* per escrow_id, what handle_task_request last returned
    outbox,         \* envelopes the listening agent has sent
    last,           \* what the most recent step did and logged
    network,        \* who can reach the listening port
    budget,         \* connections the peers will still open
    handlers,       \* MessageTransport.message_handlers: message type -> handler
    registry,       \* MessageHandler's callbacks, and what was registered last
    listening,      \* the server of start_listening accepts connections
    log,            \* what handle_message and _handle_connection have logged
    send,           \* the call of send_message in progress and its connection
    crypto,         \* a Message object being signed, altered and verified
    dht,            \* the value the DHT stores under the key of each topic
    disc,           \* per agent, its Discovery instance and its call of announce
    identities,     \* the SeedManager and Agent objects constructed so far
    hiring,         \* the hiring agent: its configuration and its call of hire
    overlap         \* one Discovery instance used by several tasks at once

vars == <<active_tasks, suspended, lifecycle, returned, outbox, last, network, budget,
          handlers, registry, listening, log, send, crypto, dht, disc, identities, hiring, overlap>>

Slots == 1..MaxConns

NoMessage == Message("none", "", "", [escrow_id |-> "none"])

\* a connection task: whether a handler is suspended in it, the message,
\* the handler handle_message called and the callback the handler awaits
IdleSlot == [busy |-> FALSE, msg |-> NoMessage, handler |-> None, callback |-> None]

\* the arrival orders that are followed message by message: request,
\* completion, payment, and completion before request
TrackedOrders ==
    { <<>>, <<TASK_REQUEST>>, <<TASK_REQUEST, TASK_COMPLETE>>,
      <<TASK_REQUEST, TASK_COMPLETE, PAYMENT_NOTIFICATION>>,
      <<TASK_COMPLETE>>, <<TASK_COMPLETE, TASK_REQUEST>> }

Tracking(path, result, tx_hash) == [path |-> path, result |-> result, tx_hash |-> tx_hash]

\* the messages of the escrow_id left the tracked orders
Untracked == Tracking(<<"untracked">>, None, None)

\* the history of an escrow_id after message m is passed to its handler;
\* `alone` tells that no earlier handler of the escrow_id is still running
Track(t, m, alone) ==
    IF alone /\ Append(t.path, m.type) \in TrackedOrders
    THEN Tracking(Append(t.path, m.type),
                  IF m.type = TASK_COMPLETE THEN m.payload.result ELSE t.result,
                  IF m.type = PAYMENT_NOTIFICATION THEN m.payload.tx_hash ELSE t.tx_hash)
    ELSE Untracked

\* a step of the listener: what it did, the slot of the connection task
\* (0 when the task ended before any handler ran), the size of the envelope
\* the peer wrote, whether read returned all of it, and the value a
\* callback returned (for a message that reached no callback, its type)
Event(op, slot, size, whole, value) ==
    [op |-> op, slot |-> slot, size |-> size, whole |-> whole, value |-> value]

\* the messages a peer may send in this run
Alphabet ==
    CASE network = "signed" -> SignedMessages
      [] network = "open" -> OpenNetworkMessages
      [] network = "faulty" -> FaultyMessages
      [] network = "extended" -> ExtendedMessages
      [] network = "hire" -> HireMessages
      [] network = "registry" -> RegistryMessages

\* the bytes a peer may write to a connection in this run
Envelopes ==
    {to_bytes(m) : m \in Alphabet}
    \cup (IF network = "faulty" THEN MalformedEnvelopes ELSE {})

\* the handler methods Agent._setup_message_handlers registers
HandlerTable ==
    (TASK_REQUEST :> "handle_task_request")
    @@ (TASK_RESPONSE :> "handle_task_response")
    @@ (TASK_COMPLETE :> "handle_task_complete")
    @@ (PAYMENT_NOTIFICATION :> "handle_payment")

\* handlers of the application, registered in place of a MessageHandler
\* method
CustomHandlers == {"custom_handler", "other_handler"}

\* callbacks of the application
CustomCallbacks == {"my_task_handler", "my_payment_handler"}

\* MessageHandler after Agent._setup_message_handlers: the four default
\* callbacks; `latest` and `chosen` keep what register_handler and the
\* set_*_handler calls were last given, `changes` counts those calls
IdleRegistry ==
    [task_request_callback |-> "default_task_request_handler",
     task_response_callback |-> "default_task_response_handler",
     task_complete_callback |-> "default_task_complete_handler",
     payment_callback |-> "default_payment_handler",
     latest |-> HandlerTable,
     chosen |-> [task_request_callback |-> "default_task_request_handler",
                 payment_callback |-> "default_payment_handler"],
     changes |-> 0]

\* the callback attribute a handler method awaits; a handler of the
\* application has none
CallbackOf(reg, handler) ==
    CASE handler = "handle_task_request" -> reg.task_request_callback
      [] handler = "handle_task_response" -> reg.task_response_callback
      [] handler = "handle_task_complete" -> reg.task_complete_callback
      [] handler = "handle_payment" -> reg.payment_callback
      [] OTHER -> None

\* no call of send_message yet
IdleSend ==
    [pc |-> "idle", msg |-> NoMessage, conn |-> "Idle", attempts |-> 0,
     buffer |-> <<>>, wire |-> <<>>, eof |-> FALSE, result |-> None, calls |-> 0]

\* a Message object m held by the agent built from `seed`, before it is signed
Unsigned(transport, seed, built, m) ==
    [pc |-> "input", transport |-> transport, seed |-> seed, built |-> built,
     msg |-> m, signs |-> 0, tampered |-> "none", checked_with |-> "none",
     verdict |-> None, received |-> NoMessage]

IdleCrypto == Unsigned("none", "s1", "Agent", NoMessage)

\* the agents that run a Discovery instance, each on its own node
Announcers == {Listener, Peer}

Topics == {"hypha-agents", "hypha-test"}

\* the key announce and discover_peers compute for a topic
DhtKey(topic) == <<"hypha:", topic>>

\* what server.get returns for a key nothing was stored under
Absent == [kind |-> "absent", items |-> <<>>]

\* json.dumps of a list of dicts, and json.loads of such a text
json_dumps(peers) == [kind |-> "array", items |-> peers]

json_loads(raw) == raw.items

\* a stored text that is no JSON
CorruptText == [kind |-> "text", items |-> <<>>]

\* a stored text that is the JSON object of these listings, not an array
json_object(peers) == [kind |-> "object", items |-> peers]

\* the python value of an empty list
EmptyList == [kind |-> "array", items |-> <<>>]

\* no value: nothing was discovered yet
NotFound == [kind |-> "none", items |-> <<>>]

\* a Discovery instance as __init__ leaves it: no server, not started, and
\* no call made
IdleDiscovery ==
    [pc |-> "idle", call |-> "none", outcome |-> "none",
     started |-> FALSE, server |-> None, bound |-> FALSE,
     topic |-> "none", info |-> [agent_id |-> "none"],
     peers |-> <<>>, stale |-> FALSE, done |-> 0, calls |-> 0, found |-> NotFound]

\* empty DHT, no Discovery started
DirectoryInit ==
    /\ dht = [k \in {DhtKey(t) : t \in Topics} |-> Absent]
    /\ disc = [a \in Announcers |-> IdleDiscovery]

\* an Agent constructed with or without PRIVATE_KEY and with or without
\* ESCROW_CONTRACT_ADDRESS in the environment, before any call of hire
Hiring(account, escrow_contract) ==
    [pc |-> "idle", account |-> account, escrow_contract |-> escrow_contract,
     argument |-> "none", peer_address |-> "none", escrow_id |-> None,
     result |-> None, escrows |-> {}, sent |-> << >>, calls |-> 0]

IdleHiring == Hiring(None, None)

Tasks == 1..MaxTasks

\* a Discovery instance as __init__ leaves it, and tasks that have not yet
\* called it: server is the number of the Server object self.server refers
\* to (0 for None), listening the Server objects that hold the port
IdleOverlap ==
    [started |-> FALSE, server |-> 0, created |-> 0, listening |-> {},
     pc |-> [k \in Tasks |-> "idle"], call |-> [k \in Tasks |-> "none"],
     own |-> [k \in Tasks |-> 0]]

\* the state of the listener after Agent.__init__: no task, nothing in flight
ListenerInit(net, n) ==
    /\ active_tasks = [e \in {} |-> None]
    /\ suspended = [c \in Slots |-> IdleSlot]
    /\ lifecycle = [e \in Escrows |-> Tracking(<<>>, None, None)]
    /\ returned = [e \in Escrows |-> "NotCalled"]
    /\ outbox = {}
    /\ last = Event("init", 0, 0, TRUE, None)
    /\ network = net
    /\ budget = n
    /\ handlers = HandlerTable
    /\ registry = IdleRegistry
    /\ listening = TRUE
    /\ log = {}

InitWith(net, n) ==
    /\ ListenerInit(net, n)
    /\ send = IdleSend
    /\ crypto = IdleCrypto
    /\ DirectoryInit
    /\ identities = << >>
    /\ hiring = IdleHiring
    /\ overlap = IdleOverlap

Init == InitWith("signed", MaxMsgs)

InitOpen == InitWith("open", MaxAuthMsgs)

InitFaulty == InitWith("faulty", MaxFaultyMsgs)

---------------------------------------------------------------------------
(* Task records: the dicts stored in MessageHandler.active_tasks *)

\* d[k] = v on a python dict
SetKey(d, k, v) == (k :> v) @@ d

\* handle_task_request: the record it stores, whatever was stored before
NewTaskRecord(m) ==
    [sender |-> m.sender,
     description |-> Field(m, "task_description"),
     amount |-> Field(m, "amount"),
     deadline |-> Field(m, "deadline"),
     status |-> "pending"]

\* the branches of the decision taken the wrong way round
DecisionStatusInverted(accepted) == IF accepted THEN "rejected" ELSE "accepted"

\* handle_task_request after the callback: the status for its decision
DecisionStatus(accepted) == IF accepted THEN "accepted" ELSE "rejected"

\* handle_task_response on an existing record
ResponseUpdate(rec, m) ==
    LET withStatus == SetKey(rec, "status", DecisionStatus(Field(m, "accepted")))
    IN  IF Field(m, "estimated_completion") # None
        THEN SetKey(withStatus, "estimated_completion", Field(m, "estimated_completion"))
        ELSE withStatus

\* handle_task_complete on an existing record
CompleteUpdate(rec, m) ==
    SetKey(SetKey(rec, "status", "completed"), "result", Field(m, "result"))

\* a payment handler that stores the tx_hash and leaves the status alone
PaymentUpdateKeepsStatus(rec, m) == SetKey(rec, "tx_hash", Field(m, "tx_hash"))

\* handle_payment on an existing record
PaymentUpdate(rec, m) ==
    SetKey(SetKey(rec, "status", "paid"), "tx_hash", Field(m, "tx_hash"))

\* handlers of which handle_payment drops the record once it is paid
TasksAfterDispatchCollectsPaid(tasks, m) ==
    LET e == Field(m, "escrow_id")
    IN  CASE m.type = TASK_REQUEST -> SetKey(tasks, e, NewTaskRecord(m))
          [] m.type = TASK_RESPONSE ->
               IF e \in DOMAIN tasks
               THEN SetKey(tasks, e, ResponseUpdate(tasks[e], m)) ELSE tasks
          [] m.type = TASK_COMPLETE ->
               IF e \in DOMAIN tasks
               THEN SetKey(tasks, e, CompleteUpdate(tasks[e], m)) ELSE tasks
          [] m.type = PAYMENT_NOTIFICATION ->
               [x \in DOMAIN tasks \ {e} |-> tasks[x]]

\* the part of a handler that runs before its callback is awaited
TasksAfterDispatch(tasks, m) ==
    LET e == Field(m, "escrow_id")
    IN  CASE m.type = TASK_REQUEST -> SetKey(tasks, e, NewTaskRecord(m))
          [] m.type = TASK_RESPONSE ->
               IF e \in DOMAIN tasks
               THEN SetKey(tasks, e, ResponseUpdate(tasks[e], m)) ELSE tasks
          [] m.type = TASK_COMPLETE ->
               IF e \in DOMAIN tasks
               THEN SetKey(tasks, e, CompleteUpdate(tasks[e], m)) ELSE tasks
          [] m.type = PAYMENT_NOTIFICATION ->
               IF e \in DOMAIN tasks
               THEN SetKey(tasks, e, PaymentUpdate(tasks[e], m)) ELSE tasks

\* an except clause that takes the record of the escrow_id back to pending
TasksAfterCallbackErrorRollback(tasks, e) ==
    IF e \in DOMAIN tasks
    THEN SetKey(tasks, e, SetKey(tasks[e], "status", "pending"))
    ELSE tasks

\* the except clauses around the callbacks: they print and change nothing
TasksAfterCallbackError(tasks, e) == tasks

\* every handler awaits its callback inside try/except Exception
CallbackErrorCaught(type) == TRUE

\* what handle_task_request returns when its callback raised
ReturnAfterCallbackError == "False"

\* get_task_status(escrow_id)['status'], "none" without a record
StatusOf(tasks, e) == IF e \in DOMAIN tasks THEN tasks[e].status ELSE "none"

\* a list_active_tasks that also returns the completed records
list_active_tasks_with_completed(tasks) ==
    [e \in {x \in DOMAIN tasks : tasks[x].status \in {"pending", "accepted", "completed"}}
       |-> tasks[e]]

\* list_active_tasks(): the records whose status is pending or accepted
list_active_tasks(tasks) ==
    [e \in {x \in DOMAIN tasks : tasks[x].status \in {"pending", "accepted"}}
       |-> tasks[e]]

\* the message types Agent._setup_message_handlers registers on the transport
message_handlers == {TASK_REQUEST, TASK_RESPONSE, TASK_COMPLETE, PAYMENT_NOTIFICATION}

---------------------------------------------------------------------------
(* The listener *)

FreeSlots == {c \in Slots : ~suspended[c].busy}

\* handlers of escrow e that wait in their callback
Waiting(e) == {c \in Slots : suspended[c].busy
                            /\ Field(suspended[c].msg, "escrow_id") = e}

\* the state of the components other than the listener
NotListener == <<send, crypto, dht, disc, identities, hiring, overlap>>

\* message_handlers.get(message.type) with a fallback handler for the
\* types that have none
HandlerLookupWithDefault(table, type) ==
    IF type \in DOMAIN table THEN table[type] ELSE "handle_task_request"

\* message_handlers.get(message.type)
HandlerLookup(table, type) == IF type \in DOMAIN table THEN table[type] ELSE None

\* the payload class a handler method parses its message into
ParsedType(handler) ==
    CASE handler = "handle_task_request" -> TASK_REQUEST
      [] handler = "handle_task_response" -> TASK_RESPONSE
      [] handler = "handle_task_complete" -> TASK_COMPLETE
      [] handler = "handle_payment" -> PAYMENT_NOTIFICATION

\* the first statement of a handler: from_message on the message it is given
HandlerParses(handler, m) == from_message_ok([m EXCEPT !.type = ParsedType(handler)])

\* a connection task that lets a deserialisation error through to the server
ServerAfterDecodeErrorStops(serving) == FALSE

\* _handle_connection catches what from_bytes raises: the server goes on
ServerAfterDecodeError(serving) == serving

\* a dispatch that lets the exception of a handler through to the server
ServerAfterHandlerErrorStops(serving) == FALSE

\* handle_message catches what a handler raises: the server goes on
ServerAfterHandlerError(serving) == serving

\* the log after one more record; the records are followed in the fault
\* model
Logged(op) == IF network = "faulty" THEN log \cup {op} ELSE log

\* a peer connects and closes without writing: read returns b"" and
\* _handle_connection returns
EmptyConnection ==
    /\ listening
    /\ budget > 0
    /\ budget' = budget - 1
    /\ last' = Event("empty", 0, 0, TRUE, None)
    /\ UNCHANGED <<active_tasks, suspended, lifecycle, returned, outbox, network,
                   handlers, registry, listening, log, NotListener>>

\* _handle_connection for the bytes `sent` of which `arrived` units are
\* buffered when read returns; handle_message and the registered handler run
\* up to the await of the user callback
HandleConnection(sent, arrived) ==
    /\ listening
    /\ budget > 0
    /\ FreeSlots # {}
    /\ sent \in Envelopes
    /\ arrived \in Arrivals(sent)
    /\ budget' = budget - 1
    /\ LET data == StreamRead(sent, arrived, ReadSize)
           c == CHOOSE x \in FreeSlots : \A y \in FreeSlots : x <= y
           size == Len(sent)
           whole == Len(data) = size
       IN  IF ~from_bytes_ok(data)
           THEN \* Message.from_bytes raises: "Error handling incoming message"
                /\ last' = Event("decode_error", 0, size, whole, None)
                /\ log' = Logged("decode_error")
                /\ listening' = ServerAfterDecodeError(listening)
                /\ UNCHANGED <<active_tasks, suspended, lifecycle, returned>>
           ELSE LET m == from_bytes(data)
                    e == Field(m, "escrow_id")
                    handler == HandlerLookup(handlers, m.type)
                IN  IF handler = None
                    THEN \* "No handler for message type"
                         /\ last' = Event("no_handler", 0, size, whole, m.type)
                         /\ log' = Logged("no_handler")
                         /\ UNCHANGED <<active_tasks, suspended, lifecycle, returned,
                                        listening>>
                    ELSE IF handler \in CustomHandlers
                    THEN \* the handler of the application is awaited
                         /\ suspended' = [suspended EXCEPT ![c] =
                               [busy |-> TRUE, msg |-> m, handler |-> handler,
                                callback |-> None]]
                         /\ last' = Event("dispatched", c, size, whole, None)
                         /\ UNCHANGED <<active_tasks, lifecycle, returned, listening, log>>
                    ELSE IF ~HandlerParses(handler, m)
                    THEN \* TypeError out of the handler: "Handler error"
                         /\ last' = Event("handler_error", 0, size, whole, m.type)
                         /\ log' = Logged("handler_error")
                         /\ listening' = ServerAfterHandlerError(listening)
                         /\ UNCHANGED <<active_tasks, suspended, lifecycle, returned>>
                    ELSE /\ active_tasks' = TasksAfterDispatch(active_tasks, m)
                         /\ suspended' = [suspended EXCEPT ![c] =
                               [busy |-> TRUE, msg |-> m, handler |-> handler,
                                callback |-> CallbackOf(registry, handler)]]
                         /\ lifecycle' = [lifecycle EXCEPT ![e] = Track(@, m, Waiting(e) = {})]
                         /\ last' = Event("dispatched", c, size, whole, None)
                         /\ UNCHANGED <<returned, listening, log>>
    /\ UNCHANGED <<outbox, network, handlers, registry, NotListener>>

\* the user callback of the handler suspended in slot c returns; for a task
\* request it returns the decision `accepted`
CallbackReturns(c, accepted) ==
    /\ suspended[c].busy
    /\ LET m == suspended[c].msg
           e == Field(m, "escrow_id")
       IN  IF suspended[c].handler = "handle_task_request"
           THEN /\ active_tasks' = SetKey(active_tasks, e,
                                     SetKey(active_tasks[e], "status", DecisionStatus(accepted)))
                /\ returned' = [returned EXCEPT ![e] = PyStr(accepted)]
                /\ lifecycle' = IF accepted THEN lifecycle
                                 ELSE [lifecycle EXCEPT ![e] = Untracked]
                /\ last' = Event("returned", c, 0, TRUE, PyStr(accepted))
           ELSE /\ accepted
                /\ last' = Event("returned", c, 0, TRUE, None)
                /\ UNCHANGED <<active_tasks, returned, lifecycle>>
    /\ suspended' = [suspended EXCEPT ![c] = IdleSlot]
    /\ UNCHANGED <<outbox, network, budget, handlers, registry, listening, log, NotListener>>

\* the user callback of the handler suspended in slot c raises: the handler
\* prints the error and returns
CallbackRaises(c) ==
    /\ suspended[c].busy
    /\ LET m == suspended[c].msg
           e == Field(m, "escrow_id")
           request == suspended[c].handler = "handle_task_request"
       IN  /\ active_tasks' = TasksAfterCallbackError(active_tasks, e)
           /\ returned' = IF request
                          THEN [returned EXCEPT ![e] = ReturnAfterCallbackError]
                          ELSE returned
           /\ lifecycle' = IF request
                           THEN [lifecycle EXCEPT ![e] = Untracked]
                           ELSE lifecycle
           /\ last' = Event(IF CallbackErrorCaught(m.type) THEN "raised" ELSE "handler_error",
                            c, 0, TRUE, None)
    /\ suspended' = [suspended EXCEPT ![c] = IdleSlot]
    /\ UNCHANGED <<outbox, network, budget, handlers, registry, listening, log, NotListener>>

Next ==
    \/ EmptyConnection
    \/ \E sent \in Envelopes : \E arrived \in Arrivals(sent) :
          HandleConnection(sent, arrived)
    \/ \E c \in Slots : \E accepted \in BOOLEAN : CallbackReturns(c, accepted)
    \/ \E c \in Slots : CallbackRaises(c)

\* the lifecycle model: every envelope is signed by its sender
Spec == Init /\ [][Next]_vars

\* the open-network model: any party writes to the listening port
SpecOpen == InitOpen /\ [][Next]_vars

\* the fault model: peers also write bytes that are no envelope, messages
\* without a registered handler and messages their handler cannot parse
SpecFaulty == InitFaulty /\ [][Next]_vars

\* the listener among peers whose task requests may carry an extra field
InitExtended == InitWith("extended", MaxMsgs)

SpecExtended == InitExtended /\ [][Next]_vars

\* the listener among peers that send task requests either way
InitHire == InitWith("hire", MaxMsgs)

SpecHire == InitHire /\ [][Next]_vars

---------------------------------------------------------------------------
(* Registration: register_handler, set_task_handler, set_payment_handler *)

\* a register_handler that keeps the handler a type already has
register_handler_keeps_first(table, type, handler) ==
    IF type \in DOMAIN table THEN table ELSE SetKey(table, type, handler)

\* register_handler: self.message_handlers[message_type.value] = handler
register_handler(table, type, handler) == SetKey(table, type, handler)

\* an on_* that assigns only while no callback of the application is set
on_callback_once(reg, attribute, callback) ==
    IF reg[attribute] \in CustomCallbacks THEN reg
    ELSE [reg EXCEPT ![attribute] = callback]

\* on_task_request / on_payment: self.<attribute> = callback
on_callback(reg, attribute, callback) == [reg EXCEPT ![attribute] = callback]

\* the handlers the application registers for a type: the MessageHandler
\* method of the type again, or a handler of its own
Registrable(type) == {HandlerTable[type]} \cup CustomHandlers

\* messaging.register_handler(type, handler)
RegisterHandler(type, handler) ==
    /\ registry.changes < MaxRegistrations
    /\ handler \in Registrable(type)
    /\ handlers' = register_handler(handlers, type, handler)
    /\ registry' = [registry EXCEPT !.latest[type] = handler, !.changes = @ + 1]
    /\ last' = Event("register_handler", 0, 0, TRUE, type)
    /\ UNCHANGED <<active_tasks, suspended, lifecycle, returned, outbox, network,
                   budget, listening, log, NotListener>>

\* Agent.set_task_handler(handler)
SetTaskHandler(handler) ==
    /\ registry.changes < MaxRegistrations
    /\ registry' = [on_callback(registry, "task_request_callback", handler)
                      EXCEPT !.chosen.task_request_callback = handler,
                             !.changes = @ + 1]
    /\ last' = Event("set_task_handler", 0, 0, TRUE, handler)
    /\ UNCHANGED <<active_tasks, suspended, lifecycle, returned, outbox, network,
                   budget, handlers, listening, log, NotListener>>

\* Agent.set_payment_handler(handler)
SetPaymentHandler(handler) ==
    /\ registry.changes < MaxRegistrations
    /\ registry' = [on_callback(registry, "payment_callback", handler)
                      EXCEPT !.chosen.payment_callback = handler,
                             !.changes = @ + 1]
    /\ last' = Event("set_payment_handler", 0, 0, TRUE, handler)
    /\ UNCHANGED <<active_tasks, suspended, lifecycle, returned, outbox, network,
                   budget, handlers, listening, log, NotListener>>

NextRegistry ==
    \/ Next
    \/ \E type \in {TASK_REQUEST, PAYMENT_NOTIFICATION} :
          \E handler \in Registrable(type) : RegisterHandler(type, handler)
    \/ \E handler \in CustomCallbacks : SetTaskHandler(handler)
    \/ \E handler \in CustomCallbacks : SetPaymentHandler(handler)

\* the listener of an application that registers handlers and callbacks
\* while a peer sends a task request and a payment notification
InitRegistry == InitWith("registry", MaxRegistryMsgs)

SpecRegistry == InitRegistry /\ [][NextRegistry]_vars

---------------------------------------------------------------------------
(* The sender: MessageTransport.send_message of the peer *)

\* what the listener side does not change during a call of send_message
ListenerVars == <<active_tasks, suspended, lifecycle, returned, outbox, last, network,
                  budget, handlers, registry, listening, log>>

\* an except clause that logs the warning and reports the send as done
SendFailsReportsSuccess(conn, wire) ==
    send' = [send EXCEPT !.pc = "done", !.result = "True", !.conn = conn, !.wire = wire]

\* the except clause of send_message: log the warning, return False; the
\* connection is left as the failed call left it
SendFails(conn, wire) ==
    send' = [send EXCEPT !.pc = "done", !.result = "False", !.conn = conn, !.wire = wire]

\* what can have reached the peer when the connection breaks while the
\* buffer is flushed
Flushed(buffer) == {SubSeq(buffer, 1, n) : n \in {0, SegmentUnits, Len(buffer)}}

\* send_message is called with message m: it signs m and has no connection yet
SendMessage(m) ==
    /\ send.pc \in {"idle", "done"}
    /\ send.calls < MaxSends
    /\ send' = [pc |-> "open", msg |-> sign_message(SigningKeyOf(m.sender), m),
                conn |-> "Idle", attempts |-> 0, buffer |-> <<>>, wire |-> <<>>,
                eof |-> FALSE, result |-> None, calls |-> send.calls + 1]
    /\ UNCHANGED <<ListenerVars, crypto, dht, disc, identities, hiring, overlap>>

\* asyncio.open_connection is awaited
OpenConnection ==
    /\ send.pc = "open"
    /\ send' = [send EXCEPT !.pc = "connecting", !.conn = "Connecting",
                            !.attempts = @ + 1]
    /\ UNCHANGED <<ListenerVars, crypto, dht, disc, identities, hiring, overlap>>

\* open_connection returns the streams, or raises
ConnectionResult(ok) ==
    /\ send.pc = "connecting"
    /\ IF ok
       THEN send' = [send EXCEPT !.pc = "write", !.conn = "Connected"]
       ELSE SendFails("Closed", <<>>)
    /\ UNCHANGED <<ListenerVars, crypto, dht, disc, identities, hiring, overlap>>

\* writer.write(signed.to_bytes()): the envelope goes to the write buffer
Write ==
    /\ send.pc = "write"
    /\ send' = [send EXCEPT !.pc = "write_eof", !.buffer = to_bytes(send.msg)]
    /\ UNCHANGED <<ListenerVars, crypto, dht, disc, identities, hiring, overlap>>

\* writer.write_eof(): the write side is shut down once the buffer is
\* flushed; the shutdown of a socket the peer has reset raises OSError and
\* leaves the transport open
WriteEof(ok) ==
    /\ send.pc = "write_eof"
    /\ IF ok
       THEN send' = [send EXCEPT !.pc = "drain", !.eof = TRUE]
       ELSE \E wire \in Flushed(send.buffer) : SendFails("Connected", wire)
    /\ UNCHANGED <<ListenerVars, crypto, dht, disc, identities, hiring, overlap>>

\* await writer.drain(): it raises when the connection was lost
Drain(ok) ==
    /\ send.pc = "drain"
    /\ IF ok
       THEN send' = [send EXCEPT !.pc = "close"]
       ELSE \E wire \in Flushed(send.buffer) : SendFails("Closed", wire)
    /\ UNCHANGED <<ListenerVars, crypto, dht, disc, identities, hiring, overlap>>

\* writer.close()
Close ==
    /\ send.pc = "close"
    /\ send' = [send EXCEPT !.pc = "wait_closed", !.conn = "Closed"]
    /\ UNCHANGED <<ListenerVars, crypto, dht, disc, identities, hiring, overlap>>

\* await writer.wait_closed(): it returns when the buffer was flushed and
\* the socket closed, and raises when the flush failed
WaitClosed(ok) ==
    /\ send.pc = "wait_closed"
    /\ IF ok
       THEN send' = [send EXCEPT !.pc = "done", !.result = "True", !.wire = send.buffer]
       ELSE \E wire \in Flushed(send.buffer) : SendFails("Closed", wire)
    /\ UNCHANGED <<ListenerVars, crypto, dht, disc, identities, hiring, overlap>>

NextSend ==
    \/ \E m \in LifecycleMessages : SendMessage(m)
    \/ OpenConnection
    \/ \E ok \in BOOLEAN : ConnectionResult(ok)
    \/ Write
    \/ \E ok \in BOOLEAN : WriteEof(ok)
    \/ \E ok \in BOOLEAN : Drain(ok)
    \/ Close
    \/ \E ok \in BOOLEAN : WaitClosed(ok)

\* the sender model: the peer calls send_message, nothing reaches the listener
InitSend == InitWith("signed", 0)

SpecSend == InitSend /\ [][NextSend]_vars

---------------------------------------------------------------------------
(* Signing and verifying one Message object *)

\* the two transports of the repository
Transports == {"hypha_sdk", "src.messaging"}

\* a message whose payload is a map that holds a map that holds a map
NestedPayload == [nonce |-> 2, route |-> [via |-> "relay", limits |-> [hops |-> 2]]]

NestedMessage == Message(PING, Peer, Listener, NestedPayload)

\* the messages that are signed
SignInputs == {TaskRequestMessage("e1"), PingMessage, NestedMessage}

\* sign_message of the transport at hand
SignWith(transport, sk, m) ==
    IF transport = "hypha_sdk" THEN sign_message(sk, m) ELSE bridge_sign_message(sk, m)

\* one field of a message replaced by another value
Altered(m, field) ==
    CASE field = "type" -> [m EXCEPT !.type = TASK_COMPLETE]
      [] field = "sender" -> [m EXCEPT !.sender = Stranger]
      [] field = "recipient" -> [m EXCEPT !.recipient = Stranger]
      [] field = "payload" -> [m EXCEPT !.payload = [escrow_id |-> "e2"]]
      [] field = "timestamp" -> [m EXCEPT !.timestamp = @ + 1]

SignedFields == {"type", "sender", "recipient", "payload", "timestamp"}

\* the verify keys a receiver may hold for the sender: the one of the
\* sender's transport, the sender's NodeID, and the one of a third party
KeyOf(which, seed, built) ==
    CASE which = "own" -> VerifyKeyOf(TransportSigningKey(seed, built))
      [] which = "node_id" -> node_id(seed)
      [] which = "other" -> VerifyKeyOf(SigningKeyOf(Stranger))

\* the transport signs the Message object it is given, in place
Sign ==
    /\ crypto.pc \in {"input", "signed"}
    /\ crypto.tampered = "none"
    /\ crypto.signs < MaxSigns
    /\ crypto' = [crypto EXCEPT
                    !.pc = "signed",
                    !.msg = SignWith(crypto.transport,
                                     TransportSigningKey(crypto.seed, crypto.built), @),
                    !.signs = @ + 1]
    /\ UNCHANGED <<ListenerVars, send, dht, disc, identities, hiring, overlap>>

\* one field of the signed message is changed before it is verified
Tamper(field) ==
    /\ crypto.pc = "signed"
    /\ crypto.tampered = "none"
    /\ crypto' = [crypto EXCEPT !.msg = Altered(@, field), !.tampered = field]
    /\ UNCHANGED <<ListenerVars, send, dht, disc, identities, hiring, overlap>>

\* verify_message with one of the keys a receiver may hold
Verify(which) ==
    /\ crypto.pc = "signed"
    /\ crypto' = [crypto EXCEPT
                    !.pc = "verified",
                    !.checked_with = which,
                    !.verdict = PyStr(verify_message(crypto.msg,
                                         KeyOf(which, crypto.seed, crypto.built)))]
    /\ UNCHANGED <<ListenerVars, send, dht, disc, identities, hiring, overlap>>

\* the message at hand, signed or not, goes through to_bytes on one side
\* and from_bytes on the other
Deliver ==
    /\ crypto.pc \in {"input", "signed"}
    /\ from_bytes_ok(to_bytes(crypto.msg))
    /\ crypto' = [crypto EXCEPT !.pc = "delivered",
                                !.received = from_bytes(to_bytes(crypto.msg))]
    /\ UNCHANGED <<ListenerVars, send, dht, disc, identities, hiring, overlap>>

NextSign ==
    \/ Sign
    \/ Deliver
    \/ \E field \in SignedFields : Tamper(field)
    \/ \E which \in {"own", "node_id", "other"} : Verify(which)

\* SeedManager(seed_bytes): os.urandom supplies the seed when none is given
NewSeedManager(seed_bytes, urandom) ==
    /\ Len(identities) < MaxIdentities
    /\ identities' = Append(identities,
                            SeedManager(IF seed_bytes = None THEN urandom ELSE seed_bytes))
    /\ UNCHANGED <<ListenerVars, send, crypto, dht, disc, hiring, overlap>>

\* Agent(seed): _generate_seed supplies the seed when none is given
NewAgent(seed, urandom, private_key) ==
    /\ Len(identities) < MaxIdentities
    /\ identities' = Append(identities,
                            AgentObject(IF seed = None THEN urandom ELSE seed, private_key))
    /\ UNCHANGED <<ListenerVars, send, crypto, dht, disc, hiring, overlap>>

NextIdentity ==
    \/ \E seed \in Seeds \cup {None} : \E urandom \in Seeds :
          NewSeedManager(seed, urandom)
    \/ \E seed \in Seeds \cup {None} : \E urandom \in Seeds :
       \E private_key \in {None, "PRIVATE_KEY"} :
          NewAgent(seed, urandom, private_key)

InitIdentity == InitWith("signed", 0)

SpecIdentity == InitIdentity /\ [][NextIdentity]_vars

\* the signing model: any agent, either transport, any of the messages
InitSign ==
    /\ ListenerInit("signed", 0)
    /\ send = IdleSend
    /\ DirectoryInit
    /\ identities = << >>
    /\ hiring = IdleHiring
    /\ overlap = IdleOverlap
    /\ crypto \in {Unsigned(t, seed, built, m) :
                     t \in Transports, seed \in Seeds, built \in Constructions,
                     m \in SignInputs}

SpecSign == InitSign /\ [][NextSign]_vars

---------------------------------------------------------------------------
(* The directory: Discovery.announce over the DHT *)

\* the services an agent may list
Services == {"code-review", "translation"}

\* the agent_info dict an agent announces
AgentInfo(a, services) ==
    [agent_id |-> a, wallet_address |-> <<"0x", a>>, services |-> services]

\* p.get("agent_id")
AgentIdOf(p) == IF "agent_id" \in DOMAIN p THEN p.agent_id ELSE None

RECURSIVE Without(_, _)
\* [p for p in peers if p.get("agent_id") != agent_id]
Without(peers, agent_id) ==
    IF peers = <<>> THEN <<>>
    ELSE IF AgentIdOf(Head(peers)) # agent_id
         THEN <<Head(peers)>> \o Without(Tail(peers), agent_id)
         ELSE Without(Tail(peers), agent_id)

\* an announce that appends without removing the earlier listing
PeersAfterAppend(existing_raw, agent_info) ==
    (IF existing_raw.kind = "array" THEN json_loads(existing_raw) ELSE <<>>)
    \o <<agent_info>>

\* an announce that stores its own listing and nothing else
PeersAfterOnlySelf(existing_raw, agent_info) == <<agent_info>>

\* the list announce builds from what it read: the decoded list without
\* the listings of this agent_id, then agent_info
PeersAfter(existing_raw, agent_info) ==
    Without(IF existing_raw.kind = "array" THEN json_loads(existing_raw) ELSE <<>>,
            AgentIdOf(agent_info))
    \o <<agent_info>>

\* a write that is computed from the value stored when it is made
WrittenFromStore(a) == json_dumps(PeersAfter(dht[DhtKey(disc[a].topic)], disc[a].info))

\* what server.set stores: the list built when the value was read
Written(a) == json_dumps(disc[a].peers)

AnnounceCalls == disc[Listener].done + disc[Peer].done

\* calls of start, stop and discover_peers made so far
OtherCalls == disc[Listener].calls + disc[Peer].calls

\* the bootstrap_nodes each Discovery is constructed with: the second node
\* bootstraps to the first
BootstrapNodes(a) == IF a = Peer THEN {Listener} ELSE {}

\* a start that makes a Server whether or not one is started
start_without_guard(d) ==
    [d EXCEPT !.server = "created", !.pc = "listen"]

\* start() up to its first await: returns at once when started, else
\* self.server = Server() and server.listen is awaited
start(d) ==
    IF d.started THEN d
    ELSE [d EXCEPT !.server = "created", !.pc = "listen"]

\* where a call goes on once the node is started
Continue(d) ==
    CASE d.call = "start" -> [d EXCEPT !.pc = "idle", !.outcome = "returned"]
      [] d.call = "announce" -> [d EXCEPT !.pc = "get"]
      [] d.call = "discover" -> [d EXCEPT !.pc = "lookup"]

\* an exception leaves the call: nothing catches it before the caller
Raise(d, exception) == [d EXCEPT !.pc = "idle", !.outcome = exception]

\* a discover_peers that returns no listing
discover_peers_nothing(raw) == EmptyList

\* discover_peers on the value server.get returned: [] for nothing stored
\* and for a text json.loads rejects, else whatever json.loads returned
discover_peers(raw) ==
    IF raw.kind = "absent" THEN EmptyList
    ELSE IF raw.kind = "text" THEN EmptyList
    ELSE [kind |-> raw.kind, items |-> json_loads(raw)]

\* start() is called on the Discovery of agent a
StartCall(a) ==
    /\ disc[a].pc = "idle"
    /\ OtherCalls < MaxCalls
    /\ disc' = [disc EXCEPT ![a] =
                  LET d == start([disc[a] EXCEPT !.call = "start", !.outcome = "none",
                                                 !.calls = @ + 1])
                  IN  IF d.pc = "idle" THEN Continue(d) ELSE d]
    /\ UNCHANGED <<ListenerVars, send, crypto, dht, identities, hiring, overlap>>

\* server.listen(port) returns or raises; it cannot bind a port that a
\* server of this instance still holds; without bootstrap nodes start is done
StartListen(a, ok) ==
    /\ disc[a].pc = "listen"
    /\ ok => ~disc[a].bound
    /\ disc' = [disc EXCEPT ![a] =
                  IF ~ok THEN Raise(@, "OSError")
                  ELSE LET d == [@ EXCEPT !.server = "listening", !.bound = TRUE]
                       IN  IF BootstrapNodes(a) # {}
                           THEN [d EXCEPT !.pc = "bootstrap"]
                           ELSE Continue([d EXCEPT !.started = TRUE])]
    /\ UNCHANGED <<ListenerVars, send, crypto, dht, identities, hiring, overlap>>

\* server.bootstrap(nodes) returns or raises; then _started = True
StartBootstrap(a, ok) ==
    /\ disc[a].pc = "bootstrap"
    /\ disc' = [disc EXCEPT ![a] =
                  IF ok THEN Continue([@ EXCEPT !.started = TRUE])
                  ELSE Raise(@, "OSError")]
    /\ UNCHANGED <<ListenerVars, send, crypto, dht, identities, hiring, overlap>>

\* stop() on an instance that holds a server: the server at hand is
\* stopped, which frees the port when it is the one that listens
Stop(a) ==
    /\ disc[a].pc = "idle"
    /\ disc[a].server # None
    /\ OtherCalls < MaxCalls
    /\ disc' = [disc EXCEPT ![a] =
                  [@ EXCEPT !.call = "stop", !.outcome = "returned", !.calls = @ + 1,
                            !.bound = IF disc[a].server = "listening" THEN FALSE ELSE @,
                            !.server = "stopped", !.started = FALSE]]
    /\ UNCHANGED <<ListenerVars, send, crypto, dht, identities, hiring, overlap>>

\* announce(topic, agent_info) is called on the Discovery of agent a; it
\* starts the DHT node when it is not started and awaits server.get
AnnounceCall(a, topic, services) ==
    /\ disc[a].pc = "idle"
    /\ AnnounceCalls < MaxAnnounces
    /\ disc' = [disc EXCEPT ![a] =
                  LET d == start([disc[a] EXCEPT
                                    !.call = "announce", !.outcome = "none",
                                    !.topic = topic, !.info = AgentInfo(a, services),
                                    !.peers = <<>>, !.stale = FALSE, !.done = @ + 1])
                  IN  IF d.pc = "idle" THEN Continue(d) ELSE d]
    /\ UNCHANGED <<ListenerVars, send, crypto, dht, identities, hiring, overlap>>

\* server.get returns or raises; announce builds the list and awaits
\* server.set; filtering a decoded value that is no list of dicts raises
AnnounceGet(a, ok) ==
    /\ disc[a].pc = "get"
    /\ LET existing_raw == dht[DhtKey(disc[a].topic)]
       IN  disc' = [disc EXCEPT ![a] =
                      IF ~ok THEN Raise(@, "OSError")
                      ELSE IF existing_raw.kind = "object" THEN Raise(@, "AttributeError")
                      ELSE [@ EXCEPT !.pc = "set",
                                     !.peers = PeersAfter(existing_raw, disc[a].info)]]
    /\ UNCHANGED <<ListenerVars, send, crypto, dht, identities, hiring, overlap>>

\* server.set stores the list and announce returns True, or it raises with
\* the list stored or not; every announce that has read the topic and not
\* yet written then holds an old value
AnnounceSet(a, ok, stored) ==
    /\ disc[a].pc = "set"
    /\ ok => stored
    /\ dht' = IF stored THEN [dht EXCEPT ![DhtKey(disc[a].topic)] = Written(a)] ELSE dht
    /\ disc' = [b \in Announcers |->
                  IF b = a
                  THEN IF ok THEN [disc[a] EXCEPT !.pc = "idle", !.outcome = "returned"]
                       ELSE Raise(disc[a], "OSError")
                  ELSE IF stored /\ disc[b].pc = "set" /\ disc[b].topic = disc[a].topic
                       THEN [disc[b] EXCEPT !.stale = TRUE]
                       ELSE disc[b]]
    /\ UNCHANGED <<ListenerVars, send, crypto, identities, hiring, overlap>>

\* discover_peers(topic) is called on the Discovery of agent a; it starts
\* the DHT node when it is not started and awaits server.get
DiscoverCall(a, topic) ==
    /\ disc[a].pc = "idle"
    /\ OtherCalls < MaxCalls
    /\ disc' = [disc EXCEPT ![a] =
                  LET d == start([disc[a] EXCEPT
                                    !.call = "discover", !.outcome = "none",
                                    !.topic = topic, !.found = NotFound,
                                    !.calls = @ + 1])
                  IN  IF d.pc = "idle" THEN Continue(d) ELSE d]
    /\ UNCHANGED <<ListenerVars, send, crypto, dht, identities, hiring, overlap>>

\* server.get returns or raises; discover_peers returns what it decodes
DiscoverGet(a, ok) ==
    /\ disc[a].pc = "lookup"
    /\ disc' = [disc EXCEPT ![a] =
                  IF ~ok THEN Raise(@, "OSError")
                  ELSE [@ EXCEPT !.pc = "idle", !.outcome = "returned",
                                 !.found = discover_peers(dht[DhtKey(disc[a].topic)])]]
    /\ UNCHANGED <<ListenerVars, send, crypto, dht, identities, hiring, overlap>>

NextDirectory ==
    \/ \E a \in Announcers : StartCall(a)
    \/ \E a \in Announcers : \E ok \in BOOLEAN : StartListen(a, ok)
    \/ \E a \in Announcers : \E ok \in BOOLEAN : StartBootstrap(a, ok)
    \/ \E a \in Announcers : Stop(a)
    \/ \E a \in Announcers : \E topic \in Topics : \E services \in Services :
          AnnounceCall(a, topic, services)
    \/ \E a \in Announcers : \E ok \in BOOLEAN : AnnounceGet(a, ok)
    \/ \E a \in Announcers : \E ok \in BOOLEAN : \E stored \in BOOLEAN :
          AnnounceSet(a, ok, stored)
    \/ \E a \in Announcers : \E topic \in Topics : DiscoverCall(a, topic)
    \/ \E a \in Announcers : \E ok \in BOOLEAN : DiscoverGet(a, ok)

\* the directory model: two agents start, stop, announce and discover on
\* the topics, in any interleaving
InitDirectory == InitWith("signed", 0)

SpecDirectory == InitDirectory /\ [][NextDirectory]_vars

\* what a topic key may hold when any participant of the DHT may have
\* written it: nothing, a list of listings, a text that is no JSON, a JSON
\* object
StoredValues ==
    {Absent, json_dumps(<<AgentInfo(Listener, "translation")>>), CorruptText,
     json_object(<<AgentInfo(Listener, "translation")>>)}

\* discover_peers against a DHT that holds any of these values
NextLookup ==
    \/ \E a \in Announcers : \E ok \in BOOLEAN : StartListen(a, ok)
    \/ \E a \in Announcers : \E ok \in BOOLEAN : StartBootstrap(a, ok)
    \/ \E a \in Announcers : \E topic \in Topics : DiscoverCall(a, topic)
    \/ \E a \in Announcers : \E ok \in BOOLEAN : DiscoverGet(a, ok)

InitLookup ==
    /\ ListenerInit("signed", 0)
    /\ send = IdleSend
    /\ crypto = IdleCrypto
    /\ identities = << >>
    /\ hiring = IdleHiring
    /\ overlap = IdleOverlap
    /\ disc = [a \in Announcers |-> IdleDiscovery]
    /\ dht \in [{DhtKey(t) : t \in Topics} -> StoredValues]

SpecLookup == InitLookup /\ [][NextLookup]_vars

---------------------------------------------------------------------------
(* Agent.hire *)

\* values passed as the peer of hire: a lower-case address, the 40 digits
\* without the prefix, a word, an address one digit short, an address with
\* a letter that is no hex digit, and a value that is no string
PeerArguments ==
    { [text |-> "0xdddd", is_str |-> TRUE, prefix |-> "0x", length |-> 42, hex |-> TRUE],
      [text |-> "dddd", is_str |-> TRUE, prefix |-> "dd", length |-> 40, hex |-> TRUE],
      [text |-> "not-an-address", is_str |-> TRUE, prefix |-> "no", length |-> 14,
       hex |-> FALSE],
      [text |-> "0xddd", is_str |-> TRUE, prefix |-> "0x", length |-> 41, hex |-> TRUE],
      [text |-> "0xdddg", is_str |-> TRUE, prefix |-> "0x", length |-> 42, hex |-> FALSE],
      [text |-> "1234", is_str |-> FALSE, prefix |-> "", length |-> 0, hex |-> FALSE] }

\* Web3.to_checksum_address: the same digits in checksum case
to_checksum_address(text) == IF text = "0xdddd" THEN "0xDdDd" ELSE text

\* validate_ethereum_address: the checks in their order, then the checksum
validate_ethereum_address(address) ==
    IF ~address.is_str THEN [ok |-> FALSE, value |-> "peer must be string"]
    ELSE IF address.prefix # "0x" THEN [ok |-> FALSE, value |-> "peer must start with '0x'"]
    ELSE IF address.length # 42 THEN [ok |-> FALSE, value |-> "peer must be 42 characters"]
    ELSE IF ~address.hex THEN [ok |-> FALSE, value |-> "peer contains invalid characters"]
    ELSE [ok |-> TRUE, value |-> to_checksum_address(address.text)]

\* a hire that validates its inputs before it looks at the configuration
hire_checks_inputs_first(account, escrow_contract, peer, inputs_ok) ==
    IF ~validate_ethereum_address(peer).ok
    THEN "ValueError: " \o validate_ethereum_address(peer).value
    ELSE IF ~inputs_ok THEN "ValueError: invalid amount, task or deadline"
    ELSE IF account = None THEN "ValueError: No account configured"
    ELSE IF escrow_contract = None THEN "ValueError: No escrow contract configured"
    ELSE "ok"

\* hire up to the creation of the escrow: the account, then the contract,
\* then the inputs, the peer first; a ValidationError becomes a ValueError
hire_checks(account, escrow_contract, peer, inputs_ok) ==
    IF account = None THEN "ValueError: No account configured"
    ELSE IF escrow_contract = None THEN "ValueError: No escrow contract configured"
    ELSE IF ~validate_ethereum_address(peer).ok
    THEN "ValueError: " \o validate_ethereum_address(peer).value
    ELSE IF ~inputs_ok THEN "ValueError: invalid amount, task or deadline"
    ELSE "ok"

\* a hire that lets the failure of the send out
hire_result_when_delivered(escrow_id, outcome) ==
    IF outcome = "True" THEN escrow_id ELSE "Exception"

\* what hire returns after the send: the except clause around _send_message
\* logs, and the result of the send is not read
hire_result(escrow_id, outcome) == escrow_id

\* hire(peer, amount, task, deadline_hours) is called; inputs_ok says
\* whether amount, task and deadline_hours pass their validators
HireCall(peer, inputs_ok) ==
    /\ hiring.pc = "idle"
    /\ hiring.calls < MaxHires
    /\ LET checked == hire_checks(hiring.account, hiring.escrow_contract, peer, inputs_ok)
       IN  hiring' = IF checked = "ok"
                     THEN [hiring EXCEPT
                             !.pc = "create_escrow", !.argument = peer.text,
                             !.peer_address = validate_ethereum_address(peer).value,
                             !.escrow_id = None, !.result = None, !.calls = @ + 1]
                     ELSE [hiring EXCEPT
                             !.argument = peer.text, !.escrow_id = None,
                             !.result = checked, !.calls = @ + 1]
    /\ UNCHANGED <<ListenerVars, send, crypto, dht, disc, identities, overlap>>

\* _create_escrow returns the id of the EscrowCreated event, or raises
CreateEscrow(ok, e) ==
    /\ hiring.pc = "create_escrow"
    /\ e \notin hiring.escrows
    /\ hiring' = IF ok
                 THEN [hiring EXCEPT !.pc = "send", !.escrow_id = e,
                                     !.escrows = @ \cup {e}]
                 ELSE [hiring EXCEPT !.pc = "idle", !.result = "Exception"]
    /\ UNCHANGED <<ListenerVars, send, crypto, dht, disc, identities, overlap>>

\* _send_message returns what send_message reported, or raises; then hire
\* returns
SendTaskRequest(outcome) ==
    /\ hiring.pc = "send"
    /\ hiring' = [hiring EXCEPT
                    !.pc = "idle",
                    !.sent = Append(@, [escrow_id |-> hiring.escrow_id,
                                        recipient |-> hiring.peer_address,
                                        outcome |-> outcome]),
                    !.result = hire_result(hiring.escrow_id, outcome)]
    /\ UNCHANGED <<ListenerVars, send, crypto, dht, disc, identities, overlap>>

NextHiring ==
    \/ \E peer \in PeerArguments : \E inputs_ok \in BOOLEAN : HireCall(peer, inputs_ok)
    \/ \E ok \in BOOLEAN : \E e \in Escrows : CreateEscrow(ok, e)
    \/ \E outcome \in {"True", "False", "raised"} : SendTaskRequest(outcome)

\* the hiring agent under any configuration of account and contract
InitHiring ==
    /\ ListenerInit("signed", 0)
    /\ send = IdleSend
    /\ crypto = IdleCrypto
    /\ DirectoryInit
    /\ identities = << >>
    /\ overlap = IdleOverlap
    /\ hiring \in {Hiring(account, escrow_contract) :
                      account \in {None, "0xacc"},
                      escrow_contract \in {None, "HyphaEscrow"}}

SpecHiring == InitHiring /\ [][NextHiring]_vars

---------------------------------------------------------------------------
(* Discovery.start reached by several tasks of one event loop *)

\* task k calls start, announce or discover_peers: each tests _started and,
\* when it is not set, runs start up to the await of listen
OverlapCall(k, call) ==
    /\ overlap.pc[k] = "idle"
    /\ overlap' =
         IF overlap.started
         THEN [overlap EXCEPT !.pc[k] = "done", !.call[k] = call]
         ELSE [overlap EXCEPT !.pc[k] = "listen", !.call[k] = call,
                              !.created = @ + 1, !.server = overlap.created + 1,
                              !.own[k] = overlap.created + 1]
    /\ UNCHANGED <<ListenerVars, send, crypto, dht, disc, identities, hiring>>

\* the listen of task k returns with the port bound to its Server, or
\* raises; the port can be bound once
OverlapListen(k, ok) ==
    /\ overlap.pc[k] = "listen"
    /\ ok => overlap.listening = {}
    /\ overlap' =
         IF ok THEN [overlap EXCEPT !.pc[k] = "bootstrap", !.listening = {overlap.own[k]}]
         ELSE [overlap EXCEPT !.pc[k] = "raised"]
    /\ UNCHANGED <<ListenerVars, send, crypto, dht, disc, identities, hiring>>

\* the bootstrap of task k returns and _started is set, or it raises
OverlapBootstrap(k, ok) ==
    /\ overlap.pc[k] = "bootstrap"
    /\ overlap' =
         IF ok THEN [overlap EXCEPT !.pc[k] = "done", !.started = TRUE]
         ELSE [overlap EXCEPT !.pc[k] = "raised"]
    /\ UNCHANGED <<ListenerVars, send, crypto, dht, disc, identities, hiring>>

NextOverlap ==
    \/ \E k \in Tasks : \E call \in {"start", "announce", "discover_peers"} :
          OverlapCall(k, call)
    \/ \E k \in Tasks : \E ok \in BOOLEAN : OverlapListen(k, ok)
    \/ \E k \in Tasks : \E ok \in BOOLEAN : OverlapBootstrap(k, ok)

InitOverlap == InitWith("signed", 0)

SpecOverlap == InitOverlap /\ [][NextOverlap]_vars

TypeOK ==
    /\ DOMAIN active_tasks \subseteq Escrows
    /\ \A e \in DOMAIN active_tasks :
          active_tasks[e].status \in {"pending", "accepted", "rejected", "completed", "paid"}
    /\ budget \in Nat
    /\ DOMAIN handlers = message_handlers
    /\ listening \in BOOLEAN

-------------------------------------------------------------------------------------------------------------------------------------------------
(* Properties *)

\* the escrow_id a message is about
EscrowOf(m) == Field(m, "escrow_id")

\* the step passed a decoded message to its handler, which now waits in
\* its callback
DispatchStep == budget' = budget - 1 /\ last'.op = "dispatched"

\* the message a dispatch step passed to its handler
Dispatched == suspended'[last'.slot].msg

\* the step ended the handler that waited in slot c
HandlerEnds(c) == suspended[c].busy /\ ~suspended'[c].busy /\ last'.slot = c

\* no connection task is inside a handler
Quiescent == \A c \in Slots : ~suspended[c].busy

\* C1: the status of a task record changes only along pending->accepted,
\* pending->rejected, accepted->completed and completed->paid (a record
\* starts in pending)
C1_StatusFollowsStateMachine ==
    [][\A e \in Escrows :
         LET old == StatusOf(active_tasks, e)
             new == StatusOf(active_tasks', e)
         IN  old # new =>
               <<old, new>> \in { <<"none", "pending">>,
                                  <<"pending", "accepted">>, <<"pending", "rejected">>,
                                  <<"accepted", "completed">>, <<"completed", "paid">> }]_vars

\* C2: once a TASK_COMPLETE and an accepted TASK_REQUEST for one escrow_id
\* have both been processed, in either arrival order, the record of the
\* escrow_id has status completed
C2_CompletedInBothOrders ==
    \A e \in Escrows :
       ( /\ lifecycle[e].path \in { <<TASK_REQUEST, TASK_COMPLETE>>,
                                    <<TASK_COMPLETE, TASK_REQUEST>> }
         /\ Waiting(e) = {} )
       => StatusOf(active_tasks, e) = "completed"

\* C3: a TASK_RESPONSE, TASK_COMPLETE or PAYMENT_NOTIFICATION for an
\* escrow_id without a record leaves a record that carries the status the
\* message implies
C3_UnknownEscrowGetsRecord ==
    [][( /\ DispatchStep
         /\ Dispatched.type \in {TASK_RESPONSE, TASK_COMPLETE, PAYMENT_NOTIFICATION}
         /\ EscrowOf(Dispatched) \notin DOMAIN active_tasks )
       => StatusOf(active_tasks', EscrowOf(Dispatched)) =
            ( CASE Dispatched.type = TASK_RESPONSE ->
                     IF Dispatched.payload.accepted THEN "accepted" ELSE "rejected"
                [] Dispatched.type = TASK_COMPLETE -> "completed"
                [] Dispatched.type = PAYMENT_NOTIFICATION -> "paid" )]_vars

\* C4: when handle_task_request has returned the decision of the callback,
\* a TASK_RESPONSE for the escrow_id with that decision as its accepted
\* flag has been sent back to the requester
C4_DecisionIsSentBack ==
    [][\A c \in Slots :
         ( /\ HandlerEnds(c)
           /\ last'.op = "returned"
           /\ suspended[c].msg.type = TASK_REQUEST )
         => \E r \in outbox' :
               /\ r.type = TASK_RESPONSE
               /\ r.recipient = suspended[c].msg.sender
               /\ r.payload.escrow_id = EscrowOf(suspended[c].msg)
               /\ PyStr(r.payload.accepted) = last'.value]_vars

\* C5: while a handler of an escrow_id waits for its user callback, no
\* other message changes the record of that escrow_id
C5_OneHandlerPerEscrow ==
    [][\A c \in Slots :
         ( suspended[c].busy /\ suspended'[c] = suspended[c] )
         => LET e == EscrowOf(suspended[c].msg)
            IN  StatusOf(active_tasks', e) = StatusOf(active_tasks, e)]_vars

\* C6: a message that carries no signature, or one that does not verify
\* under the signing key of its stated sender, reaches no handler: it
\* invokes no callback and changes no task record
C6_UnverifiedIsRejected ==
    [][DispatchStep =>
         verify_message(Dispatched, VerifyKeyOf(SigningKeyOf(Dispatched.sender)))]_vars

\* C7: handling a TASK_REQUEST stores the record with status pending before
\* the callback is invoked, and when the callback has returned its decision
\* the status is accepted for accept and rejected for reject
C7_PendingThenDecision ==
    [][/\ ( DispatchStep /\ Dispatched.type = TASK_REQUEST )
          => /\ StatusOf(active_tasks', EscrowOf(Dispatched)) = "pending"
             /\ ~suspended[last'.slot].busy /\ suspended'[last'.slot].busy
       /\ \A c \in Slots :
            ( /\ HandlerEnds(c)
              /\ last'.op = "returned"
              /\ suspended[c].msg.type = TASK_REQUEST )
            => LET e == EscrowOf(suspended[c].msg)
               IN  /\ last'.value = "True" => StatusOf(active_tasks', e) = "accepted"
                   /\ last'.value = "False" => StatusOf(active_tasks', e) = "rejected"
                   /\ last'.value \in {"True", "False"}]_vars

C7_Witness ==
    \E e \in Escrows :
       /\ last.op = "returned" /\ last.value = "False"
       /\ returned[e] = "False"
       /\ StatusOf(active_tasks, e) = "rejected"
       /\ Quiescent

\* C8: a TASK_REQUEST that the callback accepts, then a TASK_COMPLETE, then
\* a PAYMENT_NOTIFICATION for one escrow_id, each handled before the next
\* arrives, take the record through pending, accepted, completed and paid;
\* the record ends with the result of the TASK_COMPLETE and the tx_hash of
\* the PAYMENT_NOTIFICATION
C8_InOrderLifecycle ==
    \A e \in Escrows :
       LET t == lifecycle[e]
           rec == active_tasks[e]
       IN  /\ t.path = <<TASK_REQUEST>>
              => /\ e \in DOMAIN active_tasks
                 /\ rec.status = IF Waiting(e) # {} THEN "pending" ELSE "accepted"
           /\ t.path = <<TASK_REQUEST, TASK_COMPLETE>>
              => /\ e \in DOMAIN active_tasks
                 /\ rec.status = "completed"
                 /\ "result" \in DOMAIN rec /\ rec.result = t.result
           /\ t.path = <<TASK_REQUEST, TASK_COMPLETE, PAYMENT_NOTIFICATION>>
              => /\ e \in DOMAIN active_tasks
                 /\ rec.status = "paid"
                 /\ "result" \in DOMAIN rec /\ rec.result = t.result
                 /\ "tx_hash" \in DOMAIN rec /\ rec.tx_hash = t.tx_hash

C8_Witness ==
    \E e \in Escrows :
       /\ lifecycle[e].path = <<TASK_REQUEST, TASK_COMPLETE, PAYMENT_NOTIFICATION>>
       /\ Waiting(e) = {}
       /\ StatusOf(active_tasks, e) = "paid"
       /\ lifecycle[e].result \in Results /\ lifecycle[e].tx_hash \in TxHashes

\* C9: when the callback of a TASK_RESPONSE, TASK_COMPLETE or
\* PAYMENT_NOTIFICATION raises, the task records stay as they are, with
\* what the handler wrote, and the exception is caught inside the handler
C9_CallbackErrorKeepsState ==
    [][\A c \in Slots :
         ( /\ HandlerEnds(c)
           /\ last'.op # "returned"
           /\ suspended[c].msg.type \in {TASK_RESPONSE, TASK_COMPLETE, PAYMENT_NOTIFICATION} )
         => /\ active_tasks' = active_tasks
            /\ last'.op = "raised"]_vars

\* the completion callback of an accepted task raised, and the record is
\* completed and holds the result
C9_Witness ==
    \E e \in Escrows :
       /\ last.op = "raised"
       /\ Quiescent
       /\ lifecycle[e].path = <<TASK_REQUEST, TASK_COMPLETE>>
       /\ \A o \in Escrows \ {e} : lifecycle[o].path = <<>>
       /\ StatusOf(active_tasks, e) = "completed"
       /\ active_tasks[e].result = lifecycle[e].result

\* C10: an envelope no larger than the read size that reaches the listener
\* in several pieces is dispatched whole to its handler
C10_SplitEnvelopeIsDispatched ==
    ( last.size \in 1..ReadSize /\ ~last.whole )
    => /\ last.op = "dispatched"
       /\ Len(to_bytes(suspended[last.slot].msg)) = last.size

\* the step served a connection and ended it with the log record `op`
Refused(op) == budget' = budget - 1 /\ last'.op = op

C12_HandlerErrorIsContained ==
    [][Refused("handler_error")
       => /\ suspended' = suspended
          /\ handlers' = handlers
          /\ listening']_vars

\* a handler raised, and a later connection has its message in a handler
C12_Witness ==
    /\ "handler_error" \in log
    /\ last.op = "dispatched"
    /\ suspended[last.slot].msg.type \in DOMAIN handlers
    /\ listening

\* C13: a message whose type has no registered handler reaches no handler
\* and no callback, raises no error, and leaves the task records and the
\* handler table as they are
C13_UnregisteredTypeIsSkipped ==
    [][( /\ budget' = budget - 1
         /\ last'.op \in {"no_handler", "handler_error", "dispatched"}
         /\ last'.value # None
         /\ last'.value \notin DOMAIN handlers )
       => /\ last'.op = "no_handler"
          /\ "handler_error" \in log' => "handler_error" \in log
          /\ suspended' = suspended
          /\ active_tasks' = active_tasks
          /\ returned' = returned
          /\ handlers' = handlers
          /\ listening']_vars

\* a PING was received and skipped
C13_Witness ==
    /\ last.op = "no_handler"
    /\ last.value = PING
    /\ "no_handler" \in log
    /\ "handler_error" \notin log

\* a call of send_message has returned
SendReturned == send.pc = "done"

\* C14: send_message returns False when opening the connection or writing
\* fails, returns True only when the whole signed envelope and the end of
\* stream have been written, and opens at most one connection per call
C14_SendResult ==
    /\ send.attempts <= 1
    /\ SendReturned
       => /\ send.attempts = 1
          /\ send.result \in {"True", "False"}
          /\ send.result = "True"
             => /\ send.wire = to_bytes(send.msg)
                /\ send.eof
                /\ verify_message(send.msg, VerifyKeyOf(SigningKeyOf(send.msg.sender)))
          /\ ( send.wire # to_bytes(send.msg) \/ ~send.eof ) => send.result = "False"

\* a second call has returned False after its connection could not be opened
C14_Witness ==
    /\ SendReturned
    /\ send.calls = 2
    /\ send.result = "False"
    /\ send.attempts = 1
    /\ send.buffer = <<>>

\* C15: when send_message returns, with True or with False, the
\* connection it opened is closed
C15_ConnectionClosedOnReturn == SendReturned => send.conn = "Closed"

\* verify_message has returned for a message that was signed
Verified == crypto.pc = "verified"

C17_ResignedMessageVerifies ==
    ( Verified /\ crypto.signs >= 2
      /\ crypto.tampered = "none" /\ crypto.checked_with = "own" )
    => crypto.verdict = "True"

\* C18: the transport of an agent signs with the key whose verify key is
\* the NodeID of the agent, and never with the wallet key
C18_TransportSignsWithNodeKey ==
    /\ ( Verified /\ crypto.tampered = "none" /\ crypto.checked_with = "node_id" )
       => crypto.verdict = "True"
    /\ crypto.signs > 0
       => crypto.msg.signature.key # <<"vk", WalletKey(crypto.seed, crypto.built)>>

\* the listings stored under a topic
Stored(store, topic) ==
    IF store[DhtKey(topic)].kind = "array" THEN json_loads(store[DhtKey(topic)]) ELSE <<>>

\* the positions of the listings of an agent_id in a list
ListingsOf(peers, agent_id) == {i \in 1..Len(peers) : AgentIdOf(peers[i]) = agent_id}

\* the call of announce of agent a stores its list and returns
AnnounceEnds(a) ==
    disc[a].pc = "set" /\ disc'[a].pc = "idle" /\ disc'[a].outcome = "returned"

\* C19: the list stored under a topic holds at most one listing per node
\* identifier, and an announce leaves exactly one listing of the announcing
\* node, the one with the fields just announced
C19_OneListingPerNode ==
    [][/\ \A t \in Topics : \A a \in Announcers :
            Cardinality(ListingsOf(Stored(dht', t), a)) <= 1
       /\ \A a \in Announcers :
            AnnounceEnds(a)
            => LET peers == Stored(dht', disc[a].topic)
               IN  /\ Cardinality(ListingsOf(peers, a)) = 1
                   /\ \A i \in ListingsOf(peers, a) : peers[i] = disc[a].info]_vars

\* an agent has announced twice on one topic with other services, and the
\* topic holds its one listing, with the services of the second announce
C19_Witness ==
    \E a \in Announcers : \E t \in Topics :
       /\ disc[a].done = 2
       /\ disc[a].pc = "idle"
       /\ \A b \in Announcers \ {a} : disc[b].done = 0
       /\ Stored(dht, t) = <<AgentInfo(a, "translation")>>
       /\ disc[a].info = AgentInfo(a, "translation")

\* C20: announce is a read-modify-write that is not atomic: what a call
\* stores is the list it built when it read, so when two agents have both
\* read a topic before either wrote, the later write replaces the earlier
\* one and the listing of the earlier writer is gone
C20_LastWriterWins ==
    [][\A a \in Announcers :
         AnnounceEnds(a)
         => /\ dht'[DhtKey(disc[a].topic)] = json_dumps(disc[a].peers)
            /\ disc[a].stale
               => \A b \in Announcers \ {a} :
                     ListingsOf(Stored(dht', disc[a].topic), b)
                       = ListingsOf(disc[a].peers, b)]_vars

\* both agents have announced on one topic, each read before the other
\* wrote, and the topic holds the listing of the later writer only
C20_Witness ==
    \E a \in Announcers : \E t \in Topics :
       /\ disc[a].stale /\ disc[a].pc = "idle" /\ disc[a].topic = t
       /\ \A b \in Announcers \ {a} :
            /\ disc[b].pc = "idle" /\ disc[b].topic = t /\ disc[b].done = 1
            /\ ListingsOf(Stored(dht, t), b) = {}
       /\ Len(Stored(dht, t)) = 1

\* the call of discover_peers of agent b gets its value and returns
DiscoverEnds(b) ==
    disc[b].pc = "lookup" /\ disc'[b].pc = "idle" /\ disc'[b].outcome = "returned"

\* the one call of announce made so far is that of agent a on topic t, and
\* it has returned
OnlyAnnounced(a, t) ==
    /\ AnnounceCalls = 1
    /\ disc[a].done = 1
    /\ disc[a].call = "announce"
    /\ disc[a].outcome = "returned"
    /\ disc[a].topic = t

C22_DiscoverReturnsListOrEmpty ==
    [][\A b \in Announcers :
         ( disc[b].pc = "lookup" /\ disc'[b].pc = "idle" /\ disc'[b].outcome # "OSError" )
         => LET raw == dht[DhtKey(disc[b].topic)]
            IN  /\ disc'[b].outcome = "returned"
                /\ disc'[b].found.kind = "array"
                /\ disc'[b].found.items
                     = IF raw.kind = "array" THEN raw.items ELSE << >>]_vars

\* a call of start() on the instance of agent a, which is started
StartOnStarted(a) ==
    /\ disc[a].pc = "idle"
    /\ disc[a].started
    /\ disc'[a].call = "start"
    /\ disc'[a].calls = disc[a].calls + 1

\* C23: start on a started directory does nothing: no server is made, no
\* socket is bound, the server and the started flag stay as they are
C23_StartOnStartedIsNoOp ==
    [][\A a \in Announcers :
         StartOnStarted(a)
         => /\ disc'[a].pc = "idle"
            /\ disc'[a].outcome = "returned"
            /\ disc'[a].server = disc[a].server
            /\ disc'[a].bound = disc[a].bound
            /\ disc'[a].started
            /\ dht' = dht]_vars

\* an announce started the node and stored the listing, then start was
\* called and returned
C23_Witness ==
    \E a \in Announcers :
       /\ disc[a].done = 1 /\ disc[a].calls = 1
       /\ disc[a].call = "start" /\ disc[a].outcome = "returned"
       /\ disc[a].started /\ disc[a].server = "listening"
       /\ Stored(dht, disc[a].topic) = <<disc[a].info>>

\* a call of agent a ends with an exception
Raises(a) == disc[a].pc # "idle" /\ disc'[a].pc = "idle" /\ disc'[a].outcome # "returned"

\* C24: a failing listen, bootstrap, get or set ends the call with the
\* error and without a retry, and leaves no partial state: after a failed
\* start the instance is not started and holds no bound server, and after
\* a failed announce the topic holds the old value or the complete new one
C24_FailureLeavesNoPartialState ==
    [][\A a \in Announcers :
         Raises(a)
         => /\ disc[a].pc \in {"listen", "bootstrap"}
               => /\ ~disc'[a].started
                  /\ disc'[a].server # "listening"
                  /\ ~disc'[a].bound
            /\ disc[a].pc \in {"get", "set"}
               => \/ dht' = dht
                  \/ dht' = [dht EXCEPT ![DhtKey(disc[a].topic)] = json_dumps(disc[a].peers)]
            /\ disc[a].pc = "lookup" => dht' = dht]_vars

\* C28: list_active returns exactly the records whose status is pending
\* or accepted, each as it is stored
C28_ListActiveIsPendingOrAccepted ==
    LET active == list_active_tasks(active_tasks)
    IN  /\ \A e \in Escrows :
             e \in DOMAIN active
             <=> StatusOf(active_tasks, e) \in {"pending", "accepted"}
        /\ \A e \in DOMAIN active : active[e] = active_tasks[e]

\* one record is listed and the other, completed or paid, is not
C28_Witness ==
    \E e \in Escrows : \E o \in Escrows :
       /\ StatusOf(active_tasks, e) = "accepted"
       /\ StatusOf(active_tasks, o) \in {"completed", "paid"}
       /\ DOMAIN list_active_tasks(active_tasks) = {e}

\* C29: no step of the coordinator removes a task record: the escrow_ids
\* that have a record only grow
C29_RecordsAreNeverRemoved ==
    [][DOMAIN active_tasks \subseteq DOMAIN active_tasks']_vars

\* a paid record and a second record are both kept
C29_Witness ==
    /\ DOMAIN active_tasks = Escrows
    /\ \E e \in Escrows : StatusOf(active_tasks, e) = "paid"
    /\ Quiescent

\* C30: a record is created by a TASK_REQUEST only, and a TASK_REQUEST for
\* an escrow_id that has a record keeps the status, the result and the
\* tx_hash of that record
C30_RepeatedRequestKeepsRecord ==
    [][/\ \A e \in Escrows :
            ( e \notin DOMAIN active_tasks /\ e \in DOMAIN active_tasks' )
            => ( DispatchStep /\ Dispatched.type = TASK_REQUEST /\ EscrowOf(Dispatched) = e )
       /\ ( /\ DispatchStep
            /\ Dispatched.type = TASK_REQUEST
            /\ EscrowOf(Dispatched) \in DOMAIN active_tasks )
          => LET old == active_tasks[EscrowOf(Dispatched)]
                 new == active_tasks'[EscrowOf(Dispatched)]
             IN  /\ new.status = old.status
                 /\ \A k \in {"result", "tx_hash"} \cap DOMAIN old :
                       k \in DOMAIN new /\ new[k] = old[k]]_vars

\* C26: a message whose payload carries a field beyond those of its type
\* is not dropped: once read whole it reaches its handler with the payload
\* as sent, and its escrow_id has a pending record as for a plain request
C26_ExtraPayloadFieldsAreAccepted ==
    [][( /\ budget' = budget - 1
         /\ last'.size > 0
         /\ last'.whole )
       => /\ DispatchStep
          /\ Dispatched \in ExtendedMessages
          /\ StatusOf(active_tasks', EscrowOf(Dispatched)) = "pending"]_vars

C38_AnnounceChangesOwnEntryOnly ==
    [][\A a \in Announcers :
         ( AnnounceEnds(a) /\ ~disc[a].stale )
         => LET t == disc[a].topic
            IN  /\ Without(Stored(dht', t), a) = Without(Stored(dht, t), a)
                /\ \A b \in Announcers \ {a} :
                      Cardinality(ListingsOf(Stored(dht', t), b))
                        = Cardinality(ListingsOf(Stored(dht, t), b))
                /\ \A o \in Topics \ {t} : dht'[DhtKey(o)] = dht[DhtKey(o)]]_vars

\* the topic held the listing of the other agent, another topic held a
\* list too, and the agent has announced next to them
C38_Witness ==
    \E a \in Announcers : \E b \in Announcers \ {a} : \E t \in Topics :
       /\ disc[a].pc = "idle" /\ disc[a].call = "announce"
       /\ disc[a].outcome = "returned" /\ ~disc[a].stale /\ disc[a].topic = t
       /\ Len(Stored(dht, t)) = 2
       /\ Stored(dht, t)[1].agent_id = b
       /\ Stored(dht, t)[2] = disc[a].info

\* handle_task_request, suspended in slot c at its callback, returns
TaskRequestReturns(c) ==
    /\ suspended[c].busy
    /\ suspended[c].msg.type = TASK_REQUEST
    /\ ~suspended'[c].busy

\* C36: when handle_task_request returns, what it returns agrees with the
\* status stored for the escrow_id: True with accepted, False with
\* rejected, None with pending, also when the callback raised
C36_ReturnValueAgreesWithStatus ==
    [][\A c \in Slots :
         TaskRequestReturns(c)
         => LET e == EscrowOf(suspended[c].msg)
                status == StatusOf(active_tasks', e)
            IN  /\ returned'[e] \in {"True", "False", None}
                /\ returned'[e] = "True" => status = "accepted"
                /\ returned'[e] = "False" => status = "rejected"
                /\ returned'[e] = None => status = "pending"]_vars

\* C34: the task request Agent.hire sends is one the coordinator of the
\* receiver processes: once its envelope is read whole it is dispatched,
\* its escrow_id gets a pending record and the task-request callback is
\* awaited
C34_HireRequestIsProcessed ==
    [][( /\ budget' = budget - 1
         /\ last'.size > 0
         /\ last'.whole )
       => /\ DispatchStep
          /\ Dispatched \in HireMessages
          /\ suspended'[last'.slot].busy
          /\ EscrowOf(Dispatched) \in DOMAIN active_tasks'
          /\ active_tasks'[EscrowOf(Dispatched)].status = "pending"]_vars

\* a 0x-prefixed address of 40 hex digits
IsAddress(peer) == peer.is_str /\ peer.prefix = "0x" /\ peer.length = 42 /\ peer.hex

\* hire is called and raises before anything is awaited
HireRejects == hiring.pc = "idle" /\ hiring'.calls = hiring.calls + 1 /\ hiring'.pc = "idle"

C35_HireReturnsEscrowId ==
    [][( hiring.pc = "send" /\ hiring'.pc = "idle" )
       => /\ hiring'.result = hiring.escrow_id
          /\ hiring.escrow_id \in hiring.escrows]_vars

\* hire has returned the escrow_id after a send that raised
C35_Witness ==
    /\ hiring.pc = "idle"
    /\ hiring.sent # << >>
    /\ hiring.sent[Len(hiring.sent)].outcome = "raised"
    /\ hiring.result = hiring.sent[Len(hiring.sent)].escrow_id
    /\ hiring.result \in hiring.escrows

\* C37: calls on one Discovery instance that overlap before the first
\* start has finished make one DHT server: no Server is created while
\* another task is between the test of _started and its setting
C37_OverlappingStartsMakeOneServer ==
    [][overlap'.created > overlap.created
       => \A j \in Tasks : overlap.pc[j] \notin {"listen", "bootstrap"}]_vars

\* a step that passes a message to its handler in slot c
DispatchedTo(c) ==
    /\ ~suspended[c].busy
    /\ suspended'[c].busy

\* C31: the handler table holds for every type the handler registered last
\* for it and nothing else: a registration replaces the handler of its
\* type and leaves the other types alone, and a message is passed to the
\* handler registered last for its type
C31_RegistrationReplacesHandler ==
    [][ /\ DOMAIN handlers' = DOMAIN registry'.latest
        /\ \A type \in DOMAIN handlers' : handlers'[type] = registry'.latest[type]
        /\ \A c \in Slots :
              DispatchedTo(c)
              => suspended'[c].handler = registry.latest[suspended'[c].msg.type] ]_vars

\* a task request is with the second handler registered for its type while
\* the payment notifications keep the handler they had
C31_Witness ==
    /\ registry.changes = 2
    /\ \E c \in Slots :
          /\ suspended[c].busy
          /\ suspended[c].msg.type = TASK_REQUEST
          /\ suspended[c].handler = "other_handler"
    /\ handlers[PAYMENT_NOTIFICATION] = "handle_payment"

====
